---- MODULE Spec2Model ----
(***************************************************************************)
(* Model of sdlc_dashboard.py: a Streamlit script that writes five fixed   *)
(* artifacts into an output directory and offers two verification buttons. *)
(*                                                                         *)
(* Every interaction re-runs the script top to bottom, one interaction at  *)
(* a time, so each button handler is one action.  A handler that raises    *)
(* stops where it raised; the action computes how far it got.              *)
(*                                                                         *)
(* Strings the code only copies are kept as strings.  Strings the code     *)
(* searches with in are sequences of tokens, and substring search is     *)
(* token membership.  An artifact ID is a pair <<prefix, number>> so that  *)
(* its numeric suffix can be read.                                         *)
(***************************************************************************)
EXTENDS Integers, Sequences, FiniteSets, TLC

(* ----------------------------- bounds ---------------------------------- *)

\* number of browser sessions
NumSessions == 2
\* longest route / flight path handed to a generated function
MaxRouteLen == 3
\* number of capture buffers that may be left installed as sys.stdout
MaxLeaks == 1

Sessions == 1..NumSessions

(* ------------------------------ state ---------------------------------- *)

VARIABLES
    fs,             \* the output directory: file name -> file
    files_created,  \* st.session_state.files_created of each session
    sys_stdout,     \* the process-wide sys.stdout: 0 is the stream the process
                    \* started with, k > 0 the k-th capture buffer left installed
    page,           \* what the last run of the script displayed, and for whom
    calls,          \* the calls the last run made into the loaded module
    written,        \* the files the last run wrote completely, in order
    completed,      \* history: the session has run a generation through all five writes
    event           \* history: what produced this state, a run of the script
                    \* ("script"), a change from outside ("outside"), or a
                    \* direct call of a generated function ("call")

vars == <<fs, files_created, sys_stdout, page, calls, written, completed, event>>

(* ----------------------------- helpers --------------------------------- *)

Range(seq) == {seq[i] : i \in 1..Len(seq)}

RECURSIVE Concat(_, _)
\* concatenation of the sequences seqs[i], seqs[i+1], ...
Concat(seqs, i) ==
    IF i > Len(seqs) THEN <<>> ELSE seqs[i] \o Concat(seqs, i + 1)

SeqsUpTo(S, n) == UNION {[1..k -> S] : k \in 0..n}

(* --------------------------- configuration ----------------------------- *)

REQ_DOC_NAME    == "Aero_SRD_A999_FPLN.docx"
DESIGN_DOC_NAME == "Aero_SDD_A999_FPLN.docx"
CODE_FILE_NAME  == "Aero_SRC_A999_FPLN.py"
TEST_DOC_NAME   == "Aero_TST_A999_FPLN.docx"
TRACE_FILE_NAME == "Aero_A999_FPLN_Traceability.xlsx"

FileNames ==
    {REQ_DOC_NAME, DESIGN_DOC_NAME, CODE_FILE_NAME, TEST_DOC_NAME, TRACE_FILE_NAME}

DocNames == {REQ_DOC_NAME, DESIGN_DOC_NAME, TEST_DOC_NAME}

(* ------------------------- content definitions ------------------------- *)
(* A dict is a sequence of <<key, value>> pairs in insertion order.  A     *)
(* value of requirements_data, design_data or test_case_data carries its   *)
(* Python type as a tag: <<"str", text>> or <<"dict", pairs>>.             *)

Text(t) == <<"str", t>>

requirements_data ==
    << << <<"SRD_A999_FPLN", 1>>, Text("The system shall be able to calculate the optimal flight path ...") >>,
       << <<"SRD_A999_FPLN", 2>>, Text("The system shall validate a given flight plan ...") >>,
       << <<"SRD_A999_FPLN", 3>>, Text("The system shall be able to generate a weather summary ...") >> >>

design_data ==
    << << <<"SDD_A999_FPLN", 1>>, Text("A function calculate_optimal_path will be implemented ...") >>,
       << <<"SDD_A999_FPLN", 2>>, Text("A function validate_flight_plan will be created ...") >>,
       << <<"SDD_A999_FPLN", 3>>, Text("A function get_route_weather will be designed ...") >> >>

\* the nested dict of one test case
TestCase(objective, steps, expected) ==
    <<"dict", << <<"Objective", objective>>, <<"Steps", steps>>,
                 <<"Expected Result", expected>> >> >>

test_case_data ==
    << << <<"TST_A999_FPLN", 1>>,
          TestCase("Verify that calculate_optimal_path returns a valid path.",
                   "1. Call the function ... 2. Check the returned value ...",
                   "... returns a list representing a flight path.") >>,
       << <<"TST_A999_FPLN", 2>>,
          TestCase("Verify that validate_flight_plan identifies violations.",
                   "1. Create a mock flight plan ... 2. Call ... 3. Check ...",
                   "... return False and a list containing the violation.") >>,
       << <<"TST_A999_FPLN", 3>>,
          TestCase("Verify that get_route_weather returns a weather summary.",
                   "1. Define a sample flight path. 2. Call ... 3. Check ...",
                   "... a dictionary with keys like temperature, wind, hazards.") >> >>

\* list(d.keys())
Keys(dict) == [i \in 1..Len(dict) |-> dict[i][1]]

(* ------------------- the functions inside code_content ----------------- *)
(* A call yields [raised, ret, printed]: whether it raised, the value it   *)
(* returned, and the lines it printed to sys.stdout.  A Python value whose *)
(* type the verifier inspects carries it: [type, val].                     *)

PyList(seq) == [type |-> "list", val |-> seq]
PyDict(map) == [type |-> "dict", val |-> map]
PyNone == [type |-> "NoneType", val |-> <<>>]

\* a call that raised: nothing returned
Raised(printed) == [raised |-> TRUE, ret |-> PyNone, printed |-> printed]

RECURSIVE Join(_, _)
\* sep.join(parts)
Join(sep, parts) ==
    IF Len(parts) = 0 THEN <<>>
    ELSE IF Len(parts) = 1 THEN <<parts[1]>>
    ELSE <<parts[1], sep>> \o Join(sep, Tail(parts))

calculate_optimal_path(departure_waypoint, arrival_waypoint) ==
    LET optimal_path == <<"WPT_A", "WPT_B", "WPT_C">>
    IN  [raised  |-> FALSE,
         ret     |-> PyList(optimal_path),
         printed |-> << <<"Calculating optimal path from", departure_waypoint,
                          "to", arrival_waypoint>>,
                        <<"Path calculated successfully.">> >>]

\* variant: looks only at the first element of the route
validate_flight_plan_first(flight_plan) ==
    IF Len(flight_plan.route) > 0 /\ flight_plan.route[1] = "NFZ_01"
    THEN [raised  |-> FALSE,
          ret     |-> <<FALSE, << <<"Violation:", "No-Fly Zone", "NFZ_01">> >> >>,
          printed |-> << <<"Validating flight plan:", flight_plan.id>> >>]
    ELSE [raised  |-> FALSE,
          ret     |-> <<TRUE, <<>> >>,
          printed |-> << <<"Validating flight plan:", flight_plan.id>> >>]

validate_flight_plan(flight_plan) ==
    IF "NFZ_01" \in Range(flight_plan.route)
    THEN [raised  |-> FALSE,
          ret     |-> <<FALSE, << <<"Violation:", "No-Fly Zone", "NFZ_01">> >> >>,
          printed |-> << <<"Validating flight plan:", flight_plan.id>>,
                         <<"Validation Failed: Route intersects with a No-Fly Zone.">> >>]
    ELSE [raised  |-> FALSE,
          ret     |-> <<TRUE, <<>> >>,
          printed |-> << <<"Validating flight plan:", flight_plan.id>>,
                         <<"Flight plan is valid.">> >>]

\* variant: reports hazards only for a path that has waypoints
get_route_weather_nonempty(flight_path) ==
    IF flight_path.type # "list"
    THEN Raised(<<>>)
    ELSE [raised  |-> FALSE,
          ret     |-> PyDict([k \in (IF Len(flight_path.val) = 0
                                     THEN {"temperature", "wind"}
                                     ELSE {"temperature", "wind", "hazards"}) |-> "mock"]),
          printed |-> <<>>]

\* ' -> '.join(flight_path) raises TypeError unless flight_path is iterable
get_route_weather(flight_path) ==
    LET weather_summary ==
            [k \in {"temperature", "wind", "hazards"} |->
                CASE k = "temperature" -> "Avg 5C"
                  [] k = "wind"        -> "25 kts from 270"
                  [] k = "hazards"     -> "Light turbulence expected near WPT_B"]
    IN  IF flight_path.type # "list"
        THEN Raised(<<>>)
        ELSE [raised  |-> FALSE,
              ret     |-> PyDict(weather_summary),
              printed |-> << <<"Fetching weather for route:">>
                                \o Join("->", flight_path.val),
                             <<"Weather summary generated.">> >>]

(* ------------------------------ files ---------------------------------- *)
(* A file is [exists, data].  A document's data is its sequence of blocks, *)
(* the code file's data is the sequence of function definitions in its     *)
(* text, the spreadsheet's data is its sequence of rows (header first).    *)

NoFile == [exists |-> FALSE, data |-> <<>>]
File(data) == [exists |-> TRUE, data |-> data]
\* what open(path, "w") leaves when the write that follows does not happen
Truncated == File(<<>>)

Block(style, text) == [style |-> style, text |-> text]

\* the blocks of one item of content_dict (loop body, lines 111-118)
ItemBlocks(item_id, content) ==
    <<Block("Heading 2", <<"ID:">> \o item_id)>>
    \o (IF content[1] = "dict"
        THEN Concat([i \in 1..Len(content[2]) |->
                        <<Block("Heading 3", <<content[2][i][1]>>),
                          Block("Normal", <<content[2][i][2]>>)>>], 1)
        ELSE <<Block("Normal", <<content[2]>>)>>)
    \o <<Block("Normal", <<>>)>>

\* the file doc.save(filepath) leaves, whatever was there
create_word_doc(title, content_dict) ==
    File(<<Block("Heading 1", <<title>>)>>
         \o Concat([i \in 1..Len(content_dict) |->
                        ItemBlocks(content_dict[i][1], content_dict[i][2])], 1))

Def(name, body) == [name |-> name, body |-> body]

code_content ==
    << Def("calculate_optimal_path", "generated"),
       Def("validate_flight_plan", "generated"),
       Def("get_route_weather", "generated") >>

\* variant: the file is opened in append mode
create_code_file_append(content, prior) == File(prior.data \o content)

\* the file open(filepath, "w") and f.write(content) leave
create_code_file(content, prior) == File(content)

(* A DataFrame is a sequence of columns [name, values].                    *)

Column(name, values) == [name |-> name, values |-> values]

Repeat(x, n) == [i \in 1..n |-> x]

\* df[name] = values: replaces the column of that name or appends a new one
SetColumn(df, name, values) ==
    IF \E i \in 1..Len(df) : df[i].name = name
    THEN [i \in 1..Len(df) |-> IF df[i].name = name THEN Column(name, values) ELSE df[i]]
    ELSE Append(df, Column(name, values))

NumRows(df) == IF Len(df) = 0 THEN 0 ELSE Len(df[1].values)

\* df.to_excel(filepath, index=False): a header row, then one row per index
to_excel(df, prior) ==
    File(<< [j \in 1..Len(df) |-> df[j].name] >>
         \o [i \in 1..NumRows(df) |-> [j \in 1..Len(df) |-> df[j].values[i]]])

\* pd.read_excel(path): the first row names the columns
read_excel(file) ==
    LET rows == file.data
    IN  [j \in 1..Len(rows[1]) |->
            Column(rows[1][j], [i \in 1..(Len(rows) - 1) |-> rows[i + 1][j]])]

TraceFrame ==
    LET df1 == << Column("Serial Number", <<1, 2, 3>>),
                  Column("Requirement Document Name", Repeat(REQ_DOC_NAME, 3)),
                  Column("Requirement ID", Keys(requirements_data)) >>
        df2 == SetColumn(SetColumn(df1, "Design Document Name", Repeat(DESIGN_DOC_NAME, 3)),
                         "Design ID", Keys(design_data))
        df3 == SetColumn(SetColumn(df2, "Code File Name", Repeat(CODE_FILE_NAME, 3)),
                         "Code ID", << <<"SRC_A999_FPLN", 1>>, <<"SRC_A999_FPLN", 2>>,
                                       <<"SRC_A999_FPLN", 3>> >>)
    IN  SetColumn(SetColumn(df3, "Test File Name", Repeat(TEST_DOC_NAME, 3)),
                  "Test ID", Keys(test_case_data))

\* variant: the rows are added to the sheet that is already there
create_or_update_traceability_matrix_merge(prior) ==
    IF prior.exists /\ Len(prior.data) > 0
    THEN File(prior.data \o Tail(to_excel(TraceFrame, prior).data))
    ELSE to_excel(TraceFrame, prior)

\* the file the function leaves at TRACE_FILE_NAME; prior is the file it replaces
create_or_update_traceability_matrix(prior) == to_excel(TraceFrame, prior)

(* --------------------------- dynamic loading --------------------------- *)
(* The verifier executes whatever text is in the code file.  Besides the   *)
(* generated text, the file may hold a text put there from outside; the    *)
(* bodies below are the samples of such texts.                             *)

ReplaceDef(text, name, body) ==
    [i \in 1..Len(text) |-> IF text[i].name = name THEN Def(name, body) ELSE text[i]]

OtherCodeTexts ==
    { ReplaceDef(code_content, "calculate_optimal_path", "other_path"),
      ReplaceDef(code_content, "calculate_optimal_path", "returns_none"),
      ReplaceDef(code_content, "validate_flight_plan", "no_violations"),
      ReplaceDef(code_content, "get_route_weather", "no_hazards") }

\* the binding of name after exec_module: the last def of that name wins
Lookup(module, name) ==
    LET idx == {i \in 1..Len(module) : module[i].name = name}
    IN  IF idx = {} THEN "absent"
        ELSE module[CHOOSE i \in idx : \A j \in idx : j <= i].body

\* generated_code.<name>(*args); a missing attribute raises AttributeError
CallLoaded(module, name, args) ==
    LET body == Lookup(module, name)
    IN  CASE body = "absent" -> Raised(<<>>)
          [] body = "generated" /\ name = "calculate_optimal_path" ->
                calculate_optimal_path(args[1], args[2])
          [] body = "generated" /\ name = "validate_flight_plan" ->
                validate_flight_plan(args[1])
          [] body = "generated" /\ name = "get_route_weather" ->
                get_route_weather(args[1])
          [] body = "other_path" ->
                [raised |-> FALSE, ret |-> PyList(<<"WPT_Z">>), printed |-> <<>>]
          [] body = "returns_none" ->
                [raised |-> FALSE, ret |-> PyNone, printed |-> <<>>]
          [] body = "no_violations" ->
                [raised |-> FALSE, ret |-> <<FALSE, <<>> >>, printed |-> <<>>]
          [] body = "no_hazards" ->
                [raised |-> FALSE,
                 ret |-> PyDict([k \in {"temperature"} |-> "Avg 5C"]),
                 printed |-> <<>>]

(* ------------------------------ the page ------------------------------- *)
(* What one run of the script put on the page: a sequence of elements.     *)

El(kind, text, data) == [kind |-> kind, text |-> text, data |-> data]

\* Streamlit shows an uncaught exception and stops the run
ExceptionBox == El("exception", <<>>, <<>>)

CallRec(fn, args, result) == [fn |-> fn, args |-> args, result |-> result]

(* ---------------- Run Code against Requirements (199-240) -------------- *)
(* Each part yields [raised, out, calls] plus the locals it binds.         *)

\* lines 213-219
VerifyPath(module) ==
    LET args == <<"JFK", "LAX">>
        res  == CallLoaded(module, "calculate_optimal_path", args)
        path == res.ret
    IN  [raised |-> res.raised,
         calls  |-> <<CallRec("calculate_optimal_path", args, res)>>,
         path   |-> path,
         out    |-> <<El("write", <<"Verifying Req", "SRD_A999_FPLN_001">>, <<>>)>>
                    \o (IF res.raised THEN <<>>
                        ELSE IF path.type = "list" /\ Len(path.val) > 0
                        THEN <<El("write", <<"Result:", "Success", "valid path">>, path.val)>>
                        ELSE <<El("write", <<"Result:", "Failure", "no valid path">>, <<>>)>>)]

invalid_plan == [id |-> "FP001", route |-> <<"WPT_X", "NFZ_01", "WPT_Y">>]

\* variant: the check of line 225 without the negation
VerifyPlan_unnegated(module) ==
    LET args == <<invalid_plan>>
        res  == CallLoaded(module, "validate_flight_plan", args)
        is_valid   == res.ret[1]
        violations == res.ret[2]
    IN  [raised |-> res.raised,
         calls  |-> <<CallRec("validate_flight_plan", args, res)>>,
         out    |-> <<El("write", <<"Verifying Req", "SRD_A999_FPLN_002">>, <<>>)>>
                    \o (IF res.raised THEN <<>>
                        ELSE IF is_valid /\ "No-Fly Zone" \in Range(violations[1])
                        THEN <<El("write", <<"Result:", "Success", "violation identified">>,
                                  violations[1])>>
                        ELSE <<El("write", <<"Result:", "Failure", "violation not identified">>,
                                  <<>>)>>)]

\* lines 221-228; violations[0] raises IndexError on an empty list
VerifyPlan(module) ==
    LET args == <<invalid_plan>>
        res  == CallLoaded(module, "validate_flight_plan", args)
        is_valid   == res.ret[1]
        violations == res.ret[2]
        indexError == ~res.raised /\ ~is_valid /\ Len(violations) = 0
    IN  [raised |-> res.raised \/ indexError,
         calls  |-> <<CallRec("validate_flight_plan", args, res)>>,
         out    |-> <<El("write", <<"Verifying Req", "SRD_A999_FPLN_002">>, <<>>)>>
                    \o (IF res.raised \/ indexError THEN <<>>
                        ELSE IF ~is_valid /\ "No-Fly Zone" \in Range(violations[1])
                        THEN <<El("write", <<"Result:", "Success", "violation identified">>,
                                  violations[1])>>
                        ELSE <<El("write", <<"Result:", "Failure", "violation not identified">>,
                                  <<>>)>>)]

\* lines 230-236 with flight_path as the argument handed to the function
VerifyWeatherWith(module, flight_path) ==
    LET args    == <<flight_path>>
        res     == CallLoaded(module, "get_route_weather", args)
        weather == res.ret
    IN  [raised |-> res.raised,
         calls  |-> <<CallRec("get_route_weather", args, res)>>,
         out    |-> <<El("write", <<"Verifying Req", "SRD_A999_FPLN_003">>, <<>>)>>
                    \o (IF res.raised THEN <<>>
                        ELSE IF weather.type = "dict" /\ "hazards" \in DOMAIN weather.val
                        THEN <<El("write", <<"Result:", "Success", "weather summary">>,
                                  <<weather.val["hazards"]>>)>>
                        ELSE <<El("write", <<"Result:", "Failure", "no weather summary">>,
                                  <<>>)>>)]

\* variant: a sample path is passed instead of the local path
VerifyWeather_sample(module, path) ==
    VerifyWeatherWith(module, PyList(<<"WPT_A", "WPT_B", "WPT_C">>))

\* line 232 passes the path returned by line 215
VerifyWeather(module, path) == VerifyWeatherWith(module, path)

\* captured_output.getvalue(): everything the calls printed, in order
Captured(made) == Concat([i \in 1..Len(made) |-> made[i].result.printed], 1)

\* sys.stdout after the handler: old_stdout if line 239 ran, else the
\* capture buffer of this run, which is a stream not seen before
StdoutAfter(old_stdout, restored) ==
    IF restored THEN old_stdout ELSE old_stdout + 1

\* the whole handler: [out, calls, restored]; restored says whether the
\* run left sys.stdout as it found it
RunCodeHandler(file) ==
    LET info == <<El("info", <<"Executing functions">>, <<>>)>>
    IN  IF ~file.exists
        THEN \* exec_module raises before the capture starts
             [out |-> info \o <<ExceptionBox>>, calls |-> <<>>, restored |-> TRUE]
        ELSE
        LET module == file.data
            r1 == VerifyPath(module)
        IN  IF r1.raised
            THEN [out |-> info \o r1.out \o <<ExceptionBox>>, calls |-> r1.calls,
                  restored |-> FALSE]
            ELSE
            LET r2 == VerifyPlan(module)
            IN  IF r2.raised
                THEN [out |-> info \o r1.out \o r2.out \o <<ExceptionBox>>,
                      calls |-> r1.calls \o r2.calls, restored |-> FALSE]
                ELSE
                LET r3 == VerifyWeather(module, r1.path)
                    calls3 == r1.calls \o r2.calls \o r3.calls
                IN  IF r3.raised
                    THEN [out |-> info \o r1.out \o r2.out \o r3.out \o <<ExceptionBox>>,
                          calls |-> calls3, restored |-> FALSE]
                    ELSE [out |-> info \o r1.out \o r2.out \o r3.out
                                  \o <<El("code", <<>>, Captured(calls3))>>,
                          calls |-> calls3, restored |-> TRUE]

(* ------------- Run Test Cases against Requirements (243-274) ----------- *)

\* variant: the first test asks the generated code for its path
RunTestsHandler_loaded ==
    LET path_result ==
            CallLoaded(fs[CODE_FILE_NAME].data, "calculate_optimal_path", <<"JFK", "LAX">>).ret
    IN  << El("info", <<"Simulating test case execution">>, <<>>),
           El("write", <<"Testing", "TST_A999_FPLN_001">>, <<>>),
           IF path_result.type = "list"
           THEN El("write", <<"Result:", "PASSED", "returned a list">>, <<>>)
           ELSE El("write", <<"Result:", "FAILED">>, <<>>),
           El("write", <<"Testing", "TST_A999_FPLN_002">>, <<>>),
           El("write", <<"Result:", "PASSED", "returned False and the violation">>, <<>>),
           El("write", <<"Testing", "TST_A999_FPLN_003">>, <<>>),
           El("write", <<"Result:", "PASSED", "dictionary with the expected key">>, <<>>) >>

RunTestsHandler ==
    LET path_result    == PyList(<<"WPT_A", "WPT_B", "WPT_C">>)
        valid_status   == FALSE
        violation_list == << <<"Violation:", "No-Fly Zone", "NFZ_01">> >>
        weather_result == PyDict([k \in {"hazards"} |-> "Light turbulence"])
    IN  << El("info", <<"Simulating test case execution">>, <<>>),
           El("write", <<"Testing", "TST_A999_FPLN_001">>, <<>>),
           IF path_result.type = "list"
           THEN El("write", <<"Result:", "PASSED", "returned a list">>, <<>>)
           ELSE El("write", <<"Result:", "FAILED">>, <<>>),
           El("write", <<"Testing", "TST_A999_FPLN_002">>, <<>>),
           IF ~valid_status /\ "No-Fly Zone" \in Range(violation_list[1])
           THEN El("write", <<"Result:", "PASSED", "returned False and the violation">>, <<>>)
           ELSE El("write", <<"Result:", "FAILED">>, <<>>),
           El("write", <<"Testing", "TST_A999_FPLN_003">>, <<>>),
           IF weather_result.type = "dict" /\ "hazards" \in DOMAIN weather_result.val
           THEN El("write", <<"Result:", "PASSED", "dictionary with the expected key">>, <<>>)
           ELSE El("write", <<"Result:", "FAILED">>, <<>>) >>

(* --------------------- Generate All SDLC Artifacts --------------------- *)

\* the order of lines 171-183
GenerateOrder ==
    <<REQ_DOC_NAME, DESIGN_DOC_NAME, CODE_FILE_NAME, TEST_DOC_NAME, TRACE_FILE_NAME>>

\* lines 171, 174 and 180
RequirementDoc == create_word_doc("System Requirements Document (SRD)", requirements_data)
DesignDoc == create_word_doc("Software Design Document (SDD)", design_data)
TestDoc == create_word_doc("Test Case Document (TST)", test_case_data)

\* what step k of the handler leaves at its file; prior is what was there
GenerateStep(k, prior) ==
    CASE k = 1 -> RequirementDoc
      [] k = 2 -> DesignDoc
      [] k = 3 -> create_code_file(code_content, prior)
      [] k = 4 -> TestDoc
      [] k = 5 -> create_or_update_traceability_matrix(prior)

StepOf(name) == CHOOSE k \in 1..5 : GenerateOrder[k] = name

\* variant: the steps after the failing one still run
GenerateFiles_continue(old, fail, torn) ==
    [name \in FileNames |->
        LET k == StepOf(name)
        IN  IF k # fail THEN GenerateStep(k, old[name])
            ELSE IF torn THEN Truncated
            ELSE old[name]]

\* the directory after a run in which step fail raised (fail = 0: none did;
\* fail = 6: read_excel did); torn says whether the failing step had
\* already opened its file for writing
GenerateFiles(old, fail, torn) ==
    [name \in FileNames |->
        LET k == StepOf(name)
        IN  IF fail \notin 1..5 \/ k < fail THEN GenerateStep(k, old[name])
            ELSE IF k = fail /\ torn THEN Truncated
            ELSE old[name]]

\* variant: the flag is set before the writes
GenerateFlag_early(flags, s, fail) == [flags EXCEPT ![s] = TRUE]

\* lines 185-190, reached only when the five writes returned
GenerateFlag(flags, s, fail) ==
    IF fail \in 1..5 THEN flags ELSE [flags EXCEPT ![s] = TRUE]

GeneratePage(files, fail) ==
    IF fail \in 1..5 THEN <<ExceptionBox>>
    ELSE << El("success", <<"All SDLC artifacts have been created successfully!">>, <<>>),
            El("subheader", <<"Generated Traceability Matrix">>, <<>>) >>
         \o (IF fail = 6 THEN <<ExceptionBox>>
             ELSE <<El("dataframe", <<>>, read_excel(files[TRACE_FILE_NAME]))>>)

Generate(s, fail, torn) ==
    /\ fail \in 1..5 \/ ~torn
    /\ fs' = GenerateFiles(fs, fail, torn)
    /\ files_created' = GenerateFlag(files_created, s, fail)
    /\ written' = SubSeq(GenerateOrder, 1, IF fail \in 1..5 THEN fail - 1 ELSE 5)
    /\ completed' = [completed EXCEPT ![s] = @ \/ fail \notin 1..5]
    /\ page' = [session |-> s, handler |-> "generate", out |-> GeneratePage(fs', fail)]
    /\ calls' = <<>>
    /\ event' = "script"
    /\ UNCHANGED sys_stdout

(* --------------------------- the two verifiers ------------------------- *)

\* line 192: the verification buttons exist only while the flag is set
RunCode(s) ==
    /\ files_created[s]
    /\ LET r == RunCodeHandler(fs[CODE_FILE_NAME])
       IN  /\ r.restored \/ sys_stdout < MaxLeaks
           /\ sys_stdout' = StdoutAfter(sys_stdout, r.restored)
           /\ page' = [session |-> s, handler |-> "run_code", out |-> r.out]
           /\ calls' = r.calls
    /\ written' = <<>>
    /\ event' = "script"
    /\ UNCHANGED <<fs, files_created, completed>>

RunTests(s) ==
    /\ files_created[s]
    /\ page' = [session |-> s, handler |-> "run_tests", out |-> RunTestsHandler]
    /\ calls' = <<>>
    /\ written' = <<>>
    /\ event' = "script"
    /\ UNCHANGED <<fs, files_created, sys_stdout, completed>>

\* a run of the script with no button pressed (page load, refresh)
Rerun(s) ==
    /\ page' = [session |-> s, handler |-> "none", out |-> <<>>]
    /\ calls' = <<>>
    /\ written' = <<>>
    /\ event' = "script"
    /\ UNCHANGED <<fs, files_created, sys_stdout, completed>>

(* ----------------------------- environment ----------------------------- *)

OtherDoc == File(<<Block("Normal", <<"other">>)>>)

OtherSheet ==
    File(<< <<"Serial Number", "Requirement ID">>,
            <<1, <<"SRD_OLD", 1>> >>, <<2, <<"SRD_OLD", 2>> >>,
            <<3, <<"SRD_OLD", 3>> >>, <<4, <<"SRD_OLD", 4>> >> >>)

\* the texts the code file may be given from outside
CodeFiles == {NoFile, Truncated, File(code_content)} \cup {File(t) : t \in OtherCodeTexts}

\* the output directory when the process starts: "empty" after makedirs,
\* "generated" left by an earlier process, "other" holding the five names
\* with contents this program did not write
Directory(kind) ==
    [name \in FileNames |->
        CASE kind = "empty"     -> NoFile
          [] kind = "generated" -> GenerateStep(StepOf(name), NoFile)
          [] kind = "other"     ->
                IF name \in DocNames THEN OtherDoc
                ELSE IF name = TRACE_FILE_NAME THEN OtherSheet
                ELSE File(ReplaceDef(code_content, "calculate_optimal_path", "other_path"))]

\* something outside the program replaces or removes the code file, the
\* one file the program reads back and executes
Alter(file) ==
    /\ file # fs[CODE_FILE_NAME]
    /\ fs' = [fs EXCEPT ![CODE_FILE_NAME] = file]
    /\ event' = "outside"
    /\ UNCHANGED <<files_created, sys_stdout, page, calls, written, completed>>

\* the directory a generation into the empty directory leaves
GeneratedDirectory == Directory("generated")

(* --------------------------- specification ----------------------------- *)

Init ==
    /\ \E kind \in {"empty", "generated", "other"} : fs = Directory(kind)
    /\ files_created = [s \in Sessions |-> FALSE]
    /\ sys_stdout = 0
    /\ page = [session |-> 1, handler |-> "none", out |-> <<>>]
    /\ calls = <<>>
    /\ written = <<>>
    /\ completed = [s \in Sessions |-> FALSE]
    /\ event = "script"

Next ==
    \/ \E s \in Sessions, fail \in 0..6, torn \in BOOLEAN : Generate(s, fail, torn)
    \/ \E s \in Sessions : RunCode(s)
    \/ \E s \in Sessions : RunTests(s)
    \/ \E s \in Sessions : Rerun(s)
    \/ \E file \in CodeFiles : Alter(file)

Spec == Init /\ [][Next]_vars

(* ------------- the generated functions called on their own ------------- *)
(* A second specification: the code file holds the generated text, and the *)
(* three functions are called with arguments drawn from bounded sets.      *)

Waypoints == {"WPT_X", "NFZ_01", "NFZ_02"}
PlanIds == {"FP001", "FP002"}
Routes == SeqsUpTo(Waypoints, MaxRouteLen)

CallFn(name, args) ==
    /\ fs[CODE_FILE_NAME] = File(code_content)
    /\ calls' = <<CallRec(name, args, CallLoaded(fs[CODE_FILE_NAME].data, name, args))>>
    /\ event' = "call"
    /\ UNCHANGED <<fs, files_created, sys_stdout, page, written, completed>>

CallPath(dep, arr) == CallFn("calculate_optimal_path", <<dep, arr>>)

CallPlan(id, route) == CallFn("validate_flight_plan", <<[id |-> id, route |-> route]>>)

CallWeather(path) == CallFn("get_route_weather", <<PyList(path)>>)

InitFn ==
    /\ fs = GeneratedDirectory
    /\ files_created = [s \in Sessions |-> FALSE]
    /\ sys_stdout = 0
    /\ page = [session |-> 1, handler |-> "none", out |-> <<>>]
    /\ calls = <<>>
    /\ written = <<>>
    /\ completed = [s \in Sessions |-> FALSE]
    /\ event = "script"

NextFn ==
    \/ \E dep \in {"JFK", "LAX"} \cup Waypoints, arr \in {"JFK", "LAX"} : CallPath(dep, arr)
    \/ \E id \in PlanIds, route \in Routes : CallPlan(id, route)
    \/ \E path \in Routes : CallWeather(path)

SpecFn == InitFn /\ [][NextFn]_vars

(* ------------------------------ properties ----------------------------- *)

\* the step was a run of the script that took the named handler
Ran(handler) == event' = "script" /\ page'.handler = handler

Position(seq, x) == CHOOSE j \in 1..Len(seq) : seq[j] = x

\* the cell of a sheet in data row r under the named column
Cell(sheet, r, column) == sheet[r + 1][Position(sheet[1], column)]

IsResult(e) == e.kind = "write" /\ Len(e.text) > 1 /\ e.text[1] = "Result:"

Results(out) == SelectSeq(out, IsResult)

HasKind(out, kind) == \E i \in 1..Len(out) : out[i].kind = kind

\* C1: every generation that runs create_or_update_traceability_matrix
\* leaves a sheet of exactly 3 rows, whatever the file held before, and
\* the row with Serial Number k holds the k-th requirement, design, code
\* and test ID, all four with number k; the table read back has 3 rows.
C1_TraceRows ==
    [][(Ran("generate") /\ Len(written') = 5) =>
        LET sheet == fs'[TRACE_FILE_NAME].data
        IN  /\ fs'[TRACE_FILE_NAME].exists
            /\ Len(sheet) - 1 = 3
            /\ \A k \in 1..3 :
                 \E r \in 1..3 :
                    /\ Cell(sheet, r, "Serial Number") = k
                    /\ Cell(sheet, r, "Requirement ID") = Keys(requirements_data)[k]
                    /\ Cell(sheet, r, "Design ID") = Keys(design_data)[k]
                    /\ Cell(sheet, r, "Code ID") = <<"SRC_A999_FPLN", k>>
                    /\ Cell(sheet, r, "Test ID") = Keys(test_case_data)[k]
                    /\ \A c \in {"Requirement ID", "Design ID", "Code ID", "Test ID"} :
                            Cell(sheet, r, c)[2] = k
            /\ \A i \in 1..Len(page'.out) :
                    page'.out[i].kind = "dataframe" => NumRows(page'.out[i].data) = 3
      ]_vars

\* a generation replaced a sheet of another shape and displayed the table
C1_Witness ==
    /\ event = "script" /\ page.handler = "generate" /\ Len(written) = 5
    /\ HasKind(page.out, "dataframe")
    /\ Len(fs[TRACE_FILE_NAME].data) = 4
    /\ Cell(fs[TRACE_FILE_NAME].data, 3, "Test ID") = <<"TST_A999_FPLN", 3>>

\* C2: whatever the directory held, a generation that completes leaves the
\* five files with the contents a generation into the empty directory
\* leaves; so a first and any later generation leave the same contents.
C2_Idempotent ==
    [][(Ran("generate") /\ Len(written') = 5) => fs' = GeneratedDirectory]_vars

\* both sessions have completed a generation: the second ran over the
\* files of the first
C2_Witness ==
    /\ event = "script" /\ page.handler = "generate" /\ written = GenerateOrder
    /\ \A s \in Sessions : completed[s]
    /\ fs = GeneratedDirectory

\* C3: validate_flight_plan returns false and a non-empty violation list
\* whose first message contains NFZ_01 when the route has the element
\* NFZ_01, and true with an empty list when it has not.
C3_Validate ==
    \A i \in 1..Len(calls) :
        calls[i].fn = "validate_flight_plan" /\ event = "call" =>
            LET route == calls[i].args[1].route
                res   == calls[i].result
            IN  /\ ~res.raised
                /\ IF \E j \in 1..Len(route) : route[j] = "NFZ_01"
                   THEN /\ res.ret[1] = FALSE
                        /\ Len(res.ret[2]) > 0
                        /\ \E t \in 1..Len(res.ret[2][1]) : res.ret[2][1][t] = "NFZ_01"
                   ELSE /\ res.ret[1] = TRUE
                        /\ Len(res.ret[2]) = 0

\* a plan whose route has the marker zone after another waypoint was refused
C3_Witness ==
    /\ event = "call" /\ Len(calls) = 1
    /\ calls[1].fn = "validate_flight_plan"
    /\ Len(calls[1].args[1].route) = 2
    /\ calls[1].args[1].route[1] = "NFZ_02"
    /\ calls[1].args[1].route[2] = "NFZ_01"
    /\ calls[1].result.ret[1] = FALSE

IsWeatherCall(made) ==
    Len(made) = 1 /\ made[1].fn = "get_route_weather"

\* C4: get_route_weather returns, for every path including the empty one,
\* a mapping with the key hazards, and two calls return the same mapping.
C4_Weather ==
    /\ [](event = "call" /\ IsWeatherCall(calls) =>
            /\ ~calls[1].result.raised
            /\ calls[1].result.ret.type = "dict"
            /\ "hazards" \in DOMAIN calls[1].result.ret.val)
    /\ [][(event = "call" /\ event' = "call"
            /\ IsWeatherCall(calls) /\ IsWeatherCall(calls')) =>
                calls'[1].result.ret = calls[1].result.ret]_vars

\* the function was called with the empty path and returned hazards
C4_Witness ==
    /\ event = "call" /\ IsWeatherCall(calls)
    /\ calls[1].args[1].val = <<>>
    /\ "hazards" \in DOMAIN calls[1].result.ret.val

\* C5: a run of the code-execution verifier that loads the generated text
\* gets a non-empty list from calculate_optimal_path("JFK","LAX") and
\* displays three Success results, no Failure and no exception.
C5_VerifierSucceeds ==
    [][(Ran("run_code") /\ completed[page'.session]
        /\ fs[CODE_FILE_NAME] = File(code_content)) =>
            /\ Len(calls') = 3
            /\ calls'[1].fn = "calculate_optimal_path"
            /\ calls'[1].args = <<"JFK", "LAX">>
            /\ calls'[1].result.ret.type = "list"
            /\ Len(calls'[1].result.ret.val) > 0
            /\ Len(Results(page'.out)) = 3
            /\ \A i \in 1..3 : Results(page'.out)[i].text[2] = "Success"
            /\ ~HasKind(page'.out, "exception")
      ]_vars

\* the verifier ran on the generated text and showed its captured output
C5_Witness ==
    /\ event = "script" /\ page.handler = "run_code"
    /\ fs[CODE_FILE_NAME] = File(code_content)
    /\ Len(calls) = 3
    /\ Len(Results(page.out)) = 3
    /\ HasKind(page.out, "code")

\* C6: a run of the test-case verifier makes no call into the loaded
\* code, displays three PASSED results whatever the directory holds, and
\* leaves the files, the session flags and sys.stdout as they were.
C6_TestsIgnoreCode ==
    [][Ran("run_tests") =>
        /\ calls' = <<>>
        /\ Len(Results(page'.out)) = 3
        /\ \A i \in 1..3 : Results(page'.out)[i].text[2] = "PASSED"
        /\ fs' = fs
        /\ files_created' = files_created
        /\ sys_stdout' = sys_stdout
      ]_vars

\* the test-case verifier ran while the code file was missing
C6_Witness ==
    /\ event = "script" /\ page.handler = "run_tests"
    /\ ~fs[CODE_FILE_NAME].exists
    /\ Len(Results(page.out)) = 3

\* C7 as stated: the arguments of each loaded function are fixed
\* constants, so two runs of the verifier pass the same arguments to the
\* same function.
C7_FixedArguments ==
    [][\A i \in 1..Len(calls) : \A j \in 1..Len(calls') :
            calls[i].fn = calls'[j].fn => calls[i].args = calls'[j].args]_vars

\* C7 amended: calculate_optimal_path is called with ("JFK","LAX") and
\* validate_flight_plan with the plan FP001 over WPT_X, NFZ_01, WPT_Y;
\* get_route_weather is called with the value calculate_optimal_path
\* returned in the same run.
C7_Arguments ==
    \A i \in 1..Len(calls) :
        CASE calls[i].fn = "calculate_optimal_path" ->
                calls[i].args = <<"JFK", "LAX">>
          [] calls[i].fn = "validate_flight_plan" ->
                calls[i].args = <<[id |-> "FP001", route |-> <<"WPT_X", "NFZ_01", "WPT_Y">>]>>
          [] calls[i].fn = "get_route_weather" ->
                /\ i = 3
                /\ calls[1].fn = "calculate_optimal_path"
                /\ calls[i].args = <<calls[1].result.ret>>

\* get_route_weather received a path that only a replaced
\* calculate_optimal_path returns
C7_Witness ==
    /\ event = "script" /\ page.handler = "run_code"
    /\ Len(calls) = 3
    /\ calls[3].fn = "get_route_weather"
    /\ calls[3].args = <<PyList(<<"WPT_Z">>)>>

\* C8: files_created starts false in every session, never returns to
\* false, and becomes true only in a generation of that session that wrote
\* the five files in the order requirement, design, code, test,
\* traceability; a verifier runs only in a session whose flag is set, so
\* only after a completed generation of that session.
C8_Flag ==
    /\ \A s \in Sessions : ~files_created[s]
    /\ [][\A s \in Sessions :
            /\ files_created[s] => files_created'[s]
            /\ (~files_created[s] /\ files_created'[s]) =>
                    /\ Ran("generate")
                    /\ page'.session = s
                    /\ written' = <<REQ_DOC_NAME, DESIGN_DOC_NAME, CODE_FILE_NAME,
                                    TEST_DOC_NAME, TRACE_FILE_NAME>>
         ]_vars
    /\ [][(Ran("run_code") \/ Ran("run_tests")) =>
            files_created[page'.session] /\ completed[page'.session]]_vars
    /\ [](page.handler \in {"run_code", "run_tests"} =>
            files_created[page.session] /\ completed[page.session])

\* one session ran the verifier after its generation while the other
\* session still has no flag
C8_Witness ==
    /\ event = "script" /\ page.handler = "run_code"
    /\ files_created[page.session]
    /\ \E s \in Sessions : s # page.session /\ ~files_created[s]

\* C9: when a write of a generation fails, the files of the later steps
\* are left as they were, the files of the earlier steps hold what the
\* generation wrote, files_created keeps its value, and neither the
\* success message nor the table is displayed.
C9_WriteFailure ==
    [][(Ran("generate") /\ Len(written') < 5) =>
        LET k == Len(written') + 1
        IN  /\ written' = SubSeq(GenerateOrder, 1, k - 1)
            /\ \A j \in 1..5 :
                    /\ j > k => fs'[GenerateOrder[j]] = fs[GenerateOrder[j]]
                    /\ j < k => fs'[GenerateOrder[j]] = GeneratedDirectory[GenerateOrder[j]]
            /\ files_created' = files_created
            /\ ~HasKind(page'.out, "success")
            /\ ~HasKind(page'.out, "dataframe")
            /\ HasKind(page'.out, "exception")
      ]_vars

\* the write of the code file failed in a session that has no flag: the
\* two documents before it are written, the two files after it are not
C9_Witness ==
    /\ event = "script" /\ page.handler = "generate" /\ Len(written) = 2
    /\ ~files_created[page.session]
    /\ fs[REQ_DOC_NAME] = GeneratedDirectory[REQ_DOC_NAME]
    /\ fs[DESIGN_DOC_NAME] = GeneratedDirectory[DESIGN_DOC_NAME]
    /\ fs[TEST_DOC_NAME] = OtherDoc
    /\ fs[TRACE_FILE_NAME] = OtherSheet

\* C10 as stated: after every run of the code-execution verifier
\* sys.stdout is the stream it was before the run.
C10_StdoutRestored ==
    [][Ran("run_code") => sys_stdout' = sys_stdout]_vars

====
